---- MODULE Spec2Model ----
(***************************************************************************)
(* Model of the Eudoxys cache manager (src/cache/cache.py).               *)
(*                                                                         *)
(* Strings are sequences of one-character strings, so that the string     *)
(* operations of the code (replace, os.path.join, os.path.dirname,        *)
(* str(version)) are computed and not assumed.  The filesystem is a       *)
(* function from canonical paths (sequences of component names, <<>> the  *)
(* filesystem root) to nodes.  Path strings are resolved against it the   *)
(* way the operating system resolves them: component by component, each   *)
(* intermediate component having to be an existing directory.  Relative   *)
(* path strings are resolved against the working directory, which is the  *)
(* filesystem root.                                                       *)
(*                                                                         *)
(* A file carries a read-only attribute `ro`.  A file with the attribute  *)
(* set rejects removal and opening for writing with PermissionError: the  *)
(* behaviour Cache.clear's rm_ro handler is written for.                  *)
(***************************************************************************)
EXTENDS Integers, Sequences, FiniteSets, TLC

VARIABLES CACHEDIR, fs, entries, last

vars == <<CACHEDIR, fs, entries, last>>

(***************************************************************************)
(* Bounds of the model.                                                    *)
(***************************************************************************)
MaxEntries == 2

(***************************************************************************)
(* Python values.                                                          *)
(***************************************************************************)
PyNone == [t |-> "None"]
PyStr(s) == [t |-> "str", s |-> s]
PyInt(n) == [t |-> "int", n |-> n]
PyFloat(w) == [t |-> "float", w |-> w]
PyList(xs) == [t |-> "list", items |-> xs]
\* An object whose conversion to a string raises an exception.
PyObject == [t |-> "object"]

PACKAGE == PyStr(<<"c", "a", "c", "h", "e">>)
VERSION == PyInt(0)

Digit(d) == <<"0", "1", "2", "3", "4", "5", "6", "7", "8", "9">>[d + 1]

RECURSIVE Digits(_)
Digits(n) == IF n < 10 THEN <<Digit(n)>> ELSE Digits(n \div 10) \o <<Digit(n % 10)>>

\* str(x) for the values the model draws: strings, non-negative integers,
\* floats with an integral value (str(2.0) = "2.0"), None and the empty
\* list.
str(x) ==
  CASE x.t = "str" -> x.s
    [] x.t = "int" -> Digits(x.n)
    [] x.t = "float" -> Digits(x.w) \o <<".", "0">>
    [] x.t = "None" -> <<"N", "o", "n", "e">>
    [] x.t = "list" -> <<"[", "]">>

\* Mutant: x.replace(" ", "_", 1), which replaces the first space only.
replace_first(s) ==
  [i \in 1..Len(s) |-> IF s[i] = " " /\ (\A j \in 1..(i - 1) : s[j] # " ") THEN "_" ELSE s[i]]

\* x.replace(" ", "_")
replace(s) == [i \in 1..Len(s) |-> IF s[i] = " " THEN "_" ELSE s[i]]

(***************************************************************************)
(* os.path (posixpath) on path strings.                                    *)
(***************************************************************************)
SEP == "/"

startswithSep(s) == s # <<>> /\ s[1] = SEP
endswithSep(s) == s # <<>> /\ s[Len(s)] = SEP

join2(a, b) ==
  IF startswithSep(b) THEN b
  ELSE IF a = <<>> \/ endswithSep(a) THEN a \o b
  ELSE a \o <<SEP>> \o b

RECURSIVE join(_, _)
join(a, ps) == IF ps = <<>> THEN a ELSE join(join2(a, Head(ps)), Tail(ps))

\* p.rfind("/") + 1
rfindSep(p) ==
  LET I == {i \in 1..Len(p) : p[i] = SEP}
  IN IF I = {} THEN 0 ELSE CHOOSE i \in I : \A j \in I : j <= i

RECURSIVE rstripSep(_)
rstripSep(s) == IF endswithSep(s) THEN rstripSep(SubSeq(s, 1, Len(s) - 1)) ELSE s

allSep(s) == \A i \in 1..Len(s) : s[i] = SEP

split(p) ==
  LET i == rfindSep(p)
      h == SubSeq(p, 1, i)
  IN [head |-> IF h # <<>> /\ ~allSep(h) THEN rstripSep(h) ELSE h,
      tail |-> SubSeq(p, i + 1, Len(p))]

dirname(p) == split(p).head

(***************************************************************************)
(* The filesystem.                                                         *)
(***************************************************************************)
DirNode == [kind |-> "dir", ro |-> FALSE, data |-> 0]
FileNode(d) == [kind |-> "file", ro |-> FALSE, data |-> d]

\* The components of a path string (the pieces between separators; a
\* leading or trailing separator gives an empty component).
RECURSIVE components(_)
components(s) ==
  LET I == {i \in 1..Len(s) : s[i] = SEP}
  IN IF I = {} THEN <<s>>
     ELSE LET i == CHOOSE k \in I : \A j \in I : k <= j
          IN <<SubSeq(s, 1, i - 1)>> \o components(SubSeq(s, i + 1, Len(s)))

parent(p) == SubSeq(p, 1, Len(p) - 1)

\* Resolution of the components cs from the directory cur.  Every component
\* is looked up in cur, which must be an existing directory.  The result
\* names the canonical path of the last component, which may not exist.
RECURSIVE walk(_, _, _)
walk(f, cs, cur) ==
  IF cs = <<>> THEN [st |-> "ok", p |-> cur]
  ELSE IF cur \notin DOMAIN f THEN [st |-> "ENOENT", p |-> cur]
  ELSE IF f[cur].kind # "dir" THEN [st |-> "ENOTDIR", p |-> cur]
  ELSE LET c == Head(cs)
       IN IF c = <<>> \/ c = <<".">> THEN walk(f, Tail(cs), cur)
          ELSE IF c = <<".", ".">> THEN walk(f, Tail(cs), parent(cur))
          ELSE walk(f, Tail(cs), cur \o <<c>>)

lookup(f, s) == IF s = <<>> THEN [st |-> "ENOENT", p |-> <<>>] ELSE walk(f, components(s), <<>>)

\* os.path.exists / os.path.isdir / os.path.isfile
pathExists(f, s) == LET r == lookup(f, s) IN r.st = "ok" /\ r.p \in DOMAIN f
isdir(f, s) == LET r == lookup(f, s) IN r.st = "ok" /\ r.p \in DOMAIN f /\ f[r.p].kind = "dir"
isfile(f, s) == LET r == lookup(f, s) IN r.st = "ok" /\ r.p \in DOMAIN f /\ f[r.p].kind = "file"

put(f, p, node) == [q \in DOMAIN f \cup {p} |-> IF q = p THEN node ELSE f[q]]
drop(f, P) == [q \in DOMAIN f \ P |-> f[q]]

errOf(st) == IF st = "ENOENT" THEN "FileNotFoundError" ELSE "NotADirectoryError"

\* os.mkdir(s); trailing separators are allowed in the name of the new
\* directory.
mkdir(f, s) ==
  LET r == lookup(f, IF allSep(s) THEN s ELSE rstripSep(s))
  IN IF r.st # "ok" THEN [err |-> errOf(r.st), fs |-> f]
     ELSE IF r.p \in DOMAIN f THEN [err |-> "FileExistsError", fs |-> f]
     ELSE [err |-> "none", fs |-> put(f, r.p, DirNode)]

\* Mutant: os.mkdir in the place of os.makedirs(exist_ok = True).
makedirs_flat(f, name) == mkdir(f, name)

\* os.makedirs(name, exist_ok = True)
RECURSIVE makedirs(_, _)
makedirs(f, name) ==
  LET s0 == split(name)
      s1 == IF s0.tail = <<>> THEN split(s0.head) ELSE s0
      rec == s1.head # <<>> /\ s1.tail # <<>> /\ ~pathExists(f, s1.head)
      up == IF rec THEN makedirs(f, s1.head) ELSE [err |-> "none", fs |-> f]
  IN IF rec /\ up.err \notin {"none", "FileExistsError"} THEN up
     ELSE IF rec /\ s1.tail = <<".">> THEN [err |-> "none", fs |-> up.fs]
     ELSE LET m == mkdir(up.fs, name)
          IN IF m.err # "none" /\ isdir(up.fs, name) THEN [err |-> "none", fs |-> up.fs]
             ELSE m

\* open(s, mode) followed by a write of d (modes "w", "x") or a read
\* (mode "r"), and the release of the handle.
fopen(f, s, mode, d) ==
  LET r == lookup(f, s)
  IN IF r.st # "ok" THEN [err |-> errOf(r.st), fs |-> f, ret |-> <<>>]
     ELSE IF r.p \notin DOMAIN f
       THEN IF mode = "r" THEN [err |-> "FileNotFoundError", fs |-> f, ret |-> <<>>]
            ELSE [err |-> "none", fs |-> put(f, r.p, FileNode(d)), ret |-> <<>>]
     ELSE IF f[r.p].kind = "dir" THEN [err |-> "IsADirectoryError", fs |-> f, ret |-> <<>>]
     ELSE IF mode = "r" THEN [err |-> "none", fs |-> f, ret |-> <<f[r.p].data>>]
     ELSE IF mode = "x" THEN [err |-> "FileExistsError", fs |-> f, ret |-> <<>>]
     ELSE IF f[r.p].ro THEN [err |-> "PermissionError", fs |-> f, ret |-> <<>>]
     ELSE [err |-> "none", fs |-> put(f, r.p, FileNode(d)), ret |-> <<>>]

\* os.remove(s)
remove(f, s) ==
  LET r == lookup(f, s)
  IN IF r.st # "ok" THEN [err |-> errOf(r.st), fs |-> f]
     ELSE IF r.p \notin DOMAIN f THEN [err |-> "FileNotFoundError", fs |-> f]
     ELSE IF f[r.p].kind = "dir" THEN [err |-> "IsADirectoryError", fs |-> f]
     ELSE IF f[r.p].ro THEN [err |-> "PermissionError", fs |-> f]
     ELSE [err |-> "none", fs |-> drop(f, {r.p})]

isPrefix(p, q) == Len(p) <= Len(q) /\ SubSeq(q, 1, Len(p)) = p

\* The canonical paths at or beneath p.
beneath(f, p) == {q \in DOMAIN f : isPrefix(p, q)}

\* shutil.rmtree(path = s, ignore_errors, onexc).  With ignore_errors set,
\* rmtree replaces the handler by one that does nothing, so the handler
\* given by the caller is not called: an entry whose removal fails stays,
\* and so does every directory above it (rmdir of a non-empty directory
\* fails, and that error is ignored too).  Without ignore_errors the rm_ro
\* handler clears the attribute and removes the file.  A target that is
\* missing or that is no directory is an error, handled the same way, and
\* so is the removal of the root of the filesystem.
rmtree(f, s, ignore_errors, onexc) ==
  LET r == lookup(f, s)
  IN IF r.st # "ok" \/ r.p \notin DOMAIN f \/ f[r.p].kind # "dir" THEN f
     ELSE LET under == beneath(f, r.p)
              stuck == IF ignore_errors \/ onexc # "rm_ro"
                       THEN {q \in under : f[q].kind = "file" /\ f[q].ro}
                       ELSE {}
              kept == {q \in under : \E k \in stuck : isPrefix(q, k)}
          IN drop(f, (under \ kept) \ {<<>>})

(***************************************************************************)
(* class Cache                                                             *)
(***************************************************************************)
NoEntry ==
  [package |-> PyNone, version |-> PyNone, root |-> <<>>, path |-> <<>>,
   name |-> <<>>, pathname |-> <<>>, dirname |-> <<>>]

\* Cache.__init__: a single string is a one-element list; the items of a
\* list are converted with str.
aslist(path) ==
  IF path.t = "str" THEN <<path.s>>
  ELSE [i \in 1..Len(path.items) |-> str(path.items[i])]

\* Mutant: the root is taken from the default directory, as when CACHEDIR
\* is bound once at import.
resolveRoot_default(cdir, package, version) ==
  IF package.t = "None" THEN <<"/", "c">>
  ELSE join(<<"/", "c">>, <<package.s, str(version)>>)

\* Cache.__init__: self.root
resolveRoot(cdir, package, version) ==
  IF package.t = "None" THEN cdir
  ELSE join(cdir, <<package.s, str(version)>>)

\* Cache.__init__: self.path
normalize(path1) == [i \in 1..Len(path1) |-> replace(path1[i])]

\* Mutant: the type of version is not checked.
init_accepts_version(package, version) == package.t \in {"str", "None"}

\* Cache.__init__: the two assertions on package and version.
init_accepts(package, version) ==
  /\ package.t \in {"str", "None"}
  /\ package.t = "None" \/ version.t \in {"int", "str", "float", "None"}

\* Cache.__init__: every item of a list can be converted with str.
convertible(path) == path.t = "list" => \A i \in 1..Len(path.items) : path.items[i].t # "object"

\* Cache.__init__(path, package, version) with the class attribute
\* CACHEDIR = cdir, on the filesystem f.
CacheInit(cdir, f, path, package, version) ==
  IF ~init_accepts(package, version)
    THEN [err |-> "AssertionError", fs |-> f, obj |-> NoEntry]
  ELSE IF ~convertible(path)
    THEN [err |-> "TypeError", fs |-> f, obj |-> NoEntry]
  ELSE
    LET root == resolveRoot(cdir, package, version)
        selfpath == normalize(aslist(path))
    IN IF selfpath = <<>> THEN [err |-> "IndexError", fs |-> f, obj |-> NoEntry]
       ELSE
         LET pathname == join(root, selfpath)
             m == makedirs(f, dirname(pathname))
         IN [err |-> m.err, fs |-> m.fs,
             obj |-> IF m.err # "none" THEN NoEntry
                     ELSE [package |-> package, version |-> version, root |-> root,
                           path |-> selfpath, name |-> selfpath[Len(selfpath)],
                           pathname |-> pathname, dirname |-> dirname(pathname)]]

\* Cache.exists(self)
exists(f, self) == pathExists(f, self.pathname)

\* Mutant: the path is resolved again from the class attribute when the file
\* is opened.
open_current(f, self, mode, d) ==
  fopen(f, join(IF self.package.t = "None" THEN CACHEDIR
                ELSE join(CACHEDIR, <<self.package.s, str(self.version)>>), self.path),
        mode, d)

\* Cache.open(self, mode) and the use of the handle
open(f, self, mode, d) == fopen(f, self.pathname, mode, d)

\* Mutant: FileNotFoundError is raised whatever ignore_errors is.
delete_strict(f, self, ignore_errors) == remove(f, self.pathname)

\* Mutant: FileNotFoundError is ignored whatever ignore_errors is.
delete_lenient(f, self, ignore_errors) ==
  LET r == remove(f, self.pathname)
  IN IF r.err = "FileNotFoundError" THEN [err |-> "none", fs |-> f] ELSE r

\* Mutant: os.remove(self.name) in the place of os.remove(self.pathname).
delete_byname(f, self, ignore_errors) ==
  LET r == remove(f, self.name)
  IN IF r.err = "FileNotFoundError" /\ ignore_errors THEN [err |-> "none", fs |-> f]
     ELSE r

\* Cache.delete(self, ignore_errors)
delete(f, self, ignore_errors) ==
  LET r == remove(f, self.pathname)
  IN IF r.err = "FileNotFoundError" /\ ignore_errors THEN [err |-> "none", fs |-> f]
     ELSE r

\* Cache.clear(path, clear_ro) with the class attribute CACHEDIR = cdir
clear(cdir, f, path, clear_ro) ==
  LET path1 == IF path.t = "None" THEN <<>> ELSE path.items
  IN rmtree(f, join(cdir, path1), TRUE, IF clear_ro THEN "rm_ro" ELSE "None")

\* Cache.cachedir(*args, makedirs) with the class attribute CACHEDIR = cdir:
\* the class attribute is assigned before the directory is made.
cachedir(cdir, f, args, mk) ==
  IF args = <<>> THEN [err |-> "none", fs |-> f, cdir |-> cdir, ret |-> cdir]
  ELSE LET new == join(Head(args), Tail(args))
           m == IF mk THEN makedirs(f, new) ELSE [err |-> "none", fs |-> f]
       IN [err |-> m.err, fs |-> m.fs, cdir |-> new,
           ret |-> IF m.err = "none" THEN cdir ELSE <<>>]

\* Cache.clear: assert isinstance(path, list), after None is replaced by [].
clear_accepts(path) == path.t \in {"None", "list"}

(***************************************************************************)
(* The tar program run by os.system (src/cache/cli.py, backup and          *)
(* restore).  The command line is a string; the shell splits it into      *)
(* words at spaces.  An archive is a file that holds the nodes of the      *)
(* members it was made from, named relative to the directory given by -C, *)
(* and whether it is compressed.                                           *)
(***************************************************************************)
ArchiveNode(z, members, tree) ==
  [kind |-> "file", ro |-> FALSE, data |-> 0, gz |-> z, members |-> members, tree |-> tree]

isArchive(node) == "tree" \in DOMAIN node

\* The words of a command line: the maximal runs of characters other than
\* the space, in their order.
words(s) ==
  LET starts == {i \in 1..Len(s) : s[i] # " " /\ (i = 1 \/ s[i - 1] = " ")}
      end(i) == CHOOSE j \in i..Len(s) :
                  /\ \A k \in i..j : s[k] # " "
                  /\ j = Len(s) \/ s[j + 1] = " "
      nth(n) == CHOOSE i \in starts : Cardinality({j \in starts : j < i}) = n - 1
  IN [n \in 1..Cardinality(starts) |-> SubSeq(s, nth(n), end(nth(n)))]

\* The arguments of tar after the archive name: -C DIR changes the
\* directory, every other word names a member.
RECURSIVE tarScan(_, _, _)
tarScan(ws, dir, members) ==
  IF ws = <<>> THEN [dir |-> dir, members |-> members]
  ELSE IF Head(ws) = <<"-", "C">> /\ Len(ws) >= 2 THEN tarScan(Tail(Tail(ws)), ws[2], members)
  ELSE tarScan(Tail(ws), dir, Append(members, Head(ws)))

\* The name of a member relative to the directory of the archive.
memberPath(m) == SelectSeq(components(m), LAMBDA c : c \notin {<<>>, <<".">>})

\* The exit status 2 of tar as os.system returns it (the wait status).
TAR_FAILED == 512

\* tar cf[z] file -C dir members...
tarCreate(f, z, file, ws) ==
  LET a == tarScan(ws, <<".">>, <<>>)
      d == lookup(f, a.dir)
      dirok == d.st = "ok" /\ d.p \in DOMAIN f /\ f[d.p].kind = "dir"
      t == lookup(f, file)
      found == {i \in 1..Len(a.members) : dirok /\ (d.p \o memberPath(a.members[i])) \in DOMAIN f}
      taken == {q \in DOMAIN f : /\ q # t.p
                                 /\ \E i \in found : isPrefix(d.p \o memberPath(a.members[i]), q)}
      tree == [k \in {SubSeq(q, Len(d.p) + 1, Len(q)) : q \in taken} |-> f[d.p \o k]]
  IN IF t.st # "ok" \/ (t.p \in DOMAIN f /\ (f[t.p].kind = "dir" \/ f[t.p].ro))
     THEN [status |-> TAR_FAILED, fs |-> f]
     ELSE [status |-> IF found = 1..Len(a.members) THEN 0 ELSE TAR_FAILED,
           fs |-> put(f, t.p, ArchiveNode(z, {a.members[i] : i \in found}, tree))]

\* tar xf[z] file -C dir members...  Without members the whole archive is
\* extracted.  A read-only file in the way stays as it is, and so does a
\* directory where the archive holds a file.
tarExtract(f, z, file, ws) ==
  LET a == tarScan(ws, <<".">>, <<>>)
      d == lookup(f, a.dir)
      dirok == d.st = "ok" /\ d.p \in DOMAIN f /\ f[d.p].kind = "dir"
      t == lookup(f, file)
      readable == /\ t.st = "ok" /\ t.p \in DOMAIN f /\ isArchive(f[t.p])
                  /\ z => f[t.p].gz
  IN IF ~readable \/ ~dirok THEN [status |-> TAR_FAILED, fs |-> f]
     ELSE
       LET arch == f[t.p]
           found == {i \in 1..Len(a.members) : a.members[i] \in arch.members}
           sel == IF a.members = <<>> THEN DOMAIN arch.tree
                  ELSE {k \in DOMAIN arch.tree :
                          \E i \in found : isPrefix(memberPath(a.members[i]), k)}
           blocked == {k \in sel : /\ (d.p \o k) \in DOMAIN f
                                   /\ \/ f[d.p \o k].kind = "file" /\ f[d.p \o k].ro
                                      \/ f[d.p \o k].kind = "dir" /\ arch.tree[k].kind = "file"}
           done == {k \in sel : \A b \in blocked : ~isPrefix(b, k)}
           keep(k) == /\ arch.tree[k].kind = "dir" /\ (d.p \o k) \in DOMAIN f
                      /\ f[d.p \o k].kind = "dir"
           new == {d.p \o k : k \in {j \in done : ~keep(j)}}
       IN [status |-> IF blocked = {} /\ found = 1..Len(a.members) THEN 0 ELSE TAR_FAILED,
           fs |-> [q \in DOMAIN f \cup new |->
                     IF q \in new THEN arch.tree[SubSeq(q, Len(d.p) + 1, Len(q))] ELSE f[q]]]

\* tar with the words argv of its command line
tar(f, argv) ==
  IF Len(argv) < 3 THEN [status |-> TAR_FAILED, fs |-> f]
  ELSE LET z == \E i \in 1..Len(argv[2]) : argv[2][i] = "z"
           rest == SubSeq(argv, 4, Len(argv))
       IN IF argv[2][1] = "c" THEN tarCreate(f, z, argv[3], rest)
          ELSE tarExtract(f, z, argv[3], rest)

\* os.system(cmd) for the commands of the program, which all run tar.
system(f, cmd) == CHOOSE x \in {tar(f, argv) : argv \in {words(cmd)}} : TRUE

(***************************************************************************)
(* The command line (src/cache/cli.py).                                    *)
(***************************************************************************)
E_OK == 0
E_FAILED == 1
E_SYNTAX == 2

\* The choices of the positional argument `command`.
choices == {"clear", "size", "backup", "restore"}

\* Mutant: the argument parser accepts any command.
parse_args_any(a) == [err |-> "none", code |-> <<>>]

\* parser.parse_args(): a command that is not among the choices is a usage
\* error, on which the parser raises SystemExit with status 2.
parse_args(a) ==
  IF a.command \in choices THEN [err |-> "none", code |-> <<>>]
  ELSE [err |-> "SystemExit", code |-> <<E_SYNTAX>>]

\* s.replace(old, new)
RECURSIVE str_replace(_, _, _)
str_replace(s, old, new) ==
  IF old = <<>> \/ Len(s) < Len(old) THEN s
  ELSE IF SubSeq(s, 1, Len(old)) = old
    THEN new \o str_replace(SubSeq(s, Len(old) + 1, Len(s)), old, new)
  ELSE <<Head(s)>> \o str_replace(Tail(s), old, new)

\* s.endswith(".gz")
endswith_gz(s) == Len(s) >= 3 /\ SubSeq(s, Len(s) - 2, Len(s)) = <<".", "g", "z">>

\* The digits of n, padded with zeros to the width w.
RECURSIVE zfill(_, _)
zfill(ds, w) == IF Len(ds) >= w THEN ds ELSE zfill(<<"0">> \o ds, w)

\* The text of a size below 10^6 bytes: f"{size:.0f} B" below 1000 and
\* f"{size/1000:.3f} kB" from there.
sizeText(size) ==
  IF size < 1000 THEN Digits(size) \o <<" ", "B">>
  ELSE Digits(size \div 1000) \o <<".">> \o zfill(Digits(size % 1000), 3) \o <<" ", "k", "B">>

\* os.path.getsize(s): a file of content d has d bytes.
getsize(f, s) ==
  LET r == lookup(f, s)
  IN IF r.st # "ok" THEN [err |-> errOf(r.st), size |-> 0]
     ELSE IF r.p \notin DOMAIN f THEN [err |-> "FileNotFoundError", size |-> 0]
     ELSE [err |-> "none", size |-> f[r.p].data]

\* print(f"ERROR [cache]: {err}")
errorLine(err) == [tag |-> "ERROR [cache]:", err |-> err]

\* print(cache.pathname.replace(Cache.cachedir(), "~"), size)
sizeLine(pathname, cdir, size) ==
  [path |-> str_replace(pathname, cdir, <<"~">>), size |-> sizeText(size)]

isError(line) == "tag" \in DOMAIN line

tarCommand(verb, filename, cdir) ==
  <<"t", "a", "r", " ">> \o verb \o (IF endswith_gz(filename) THEN <<"f", "z">> ELSE <<"f">>)
    \o <<" ">> \o filename \o <<" ", "-", "C", " ">> \o cdir

\* The results of main after parse_args; c is the result of
\* Cache.cachedir(args.cachedir), g the filesystem main leaves.  An
\* exception e is raised again when --debug is given, and is printed and
\* turned into E_FAILED when it is not.
\* Mutant: the exception is caught whether --debug is given or not.
raised_caught(c, a, e, g) ==
  [err |-> "none", code |-> <<E_FAILED>>, out |-> <<errorLine(e)>>, fs |-> g, cdir |-> c.cdir]

raised(c, a, e, g) ==
  IF a.debug THEN [err |-> e, code |-> <<>>, out |-> <<>>, fs |-> g, cdir |-> c.cdir]
  ELSE [err |-> "none", code |-> <<E_FAILED>>, out |-> <<errorLine(e)>>, fs |-> g, cdir |-> c.cdir]

returned(c, n, o, g) == [err |-> "none", code |-> <<n>>, out |-> o, fs |-> g, cdir |-> c.cdir]

\* case "size", made being the result of the construction of the entry:
\* after the line is printed, control leaves the match statement and
\* reaches the return at the end of the try block.
case_size(c, a, made) ==
  LET got == getsize(made.fs, made.obj.pathname)
  IN IF made.err # "none" THEN raised(c, a, made.err, made.fs)
     ELSE IF got.err # "none" THEN raised(c, a, got.err, made.fs)
     ELSE returned(c, E_FAILED, <<sizeLine(made.obj.pathname, c.cdir, got.size)>>, made.fs)

\* The body of main after parse_args: a is the namespace of arguments and
\* c the result of Cache.cachedir(args.cachedir).
match_command(c, a) ==
  IF c.err # "none" THEN raised(c, a, c.err, c.fs)
  ELSE IF a.command = "clear"
    THEN IF clear_accepts(a.package)
         THEN returned(c, E_OK, <<>>, clear(c.cdir, c.fs, a.package, TRUE))
         ELSE raised(c, a, "AssertionError", c.fs)
  ELSE IF a.command = "size"
    THEN LET segs == components(a.path)
             asked == PyList([i \in 1..Len(segs) |-> PyStr(segs[i])])
         IN CHOOSE x \in {case_size(c, a, made) :
                            made \in {CacheInit(c.cdir, c.fs, asked, a.package, PyStr(a.version))}} : TRUE
  ELSE IF a.command \in {"backup", "restore"}
    THEN LET cmd == IF a.command = "backup"
                    THEN tarCommand(<<"c">>, a.filename, c.cdir) \o <<" ", ".">>
                    ELSE tarCommand(<<"x">>, a.filename, c.cdir)
         IN CHOOSE x \in {returned(c, ran.status, <<>>, ran.fs) : ran \in {system(c.fs, cmd)}} : TRUE
  ELSE IF a.command = "_" THEN raised(c, a, "RuntimeError", c.fs)
  ELSE returned(c, E_FAILED, <<>>, c.fs)

\* main(*args) with the class attribute CACHEDIR = cdir on the filesystem
\* f.  The result holds the exception that leaves main (err), the value
\* main returns or the status of SystemExit (code), the lines printed
\* (out), and the filesystem and class attribute main leaves.
main(cdir, f, a) ==
  LET p == parse_args(a)
      dir == IF a.cachedir = PyNone THEN cdir ELSE a.cachedir.s
  IN IF p.err # "none"
     THEN [err |-> p.err, code |-> p.code, out |-> <<>>, fs |-> f, cdir |-> cdir]
     ELSE CHOOSE x \in {match_command(c, a) : c \in {cachedir(cdir, f, <<dir>>, TRUE)}} : TRUE

(***************************************************************************)
(* The state machine                                                       *)
(***************************************************************************)
call(op, obj, arg, err, ret) == [op |-> op, obj |-> obj, arg |-> arg, err |-> err, ret |-> ret]

DEFAULTDIR == <<"/", "c">>

Init ==
  /\ CACHEDIR = DEFAULTDIR
  /\ fs = (<<>> :> DirNode)
  /\ entries = {}
  /\ last = call("init", NoEntry, [none |-> 0], "none", <<>>)

\* cache = Cache(path, package, version)
Construct(path, package, version) ==
  LET r == CacheInit(CACHEDIR, fs, path, package, version)
  IN /\ r.err = "none" => (r.obj \in entries \/ Cardinality(entries) < MaxEntries)
     /\ fs' = r.fs
     /\ entries' = IF r.err = "none" THEN entries \cup {r.obj} ELSE entries
     /\ last' = call("Cache", r.obj, [path |-> path, package |-> package, version |-> version],
                     r.err, <<>>)
     /\ UNCHANGED CACHEDIR

\* Cache.cachedir(*args, makedirs)
Cachedir(args, mk) ==
  IF args = <<>>
  THEN /\ last' = call("cachedir", NoEntry, [args |-> args, makedirs |-> mk], "none", CACHEDIR)
       /\ UNCHANGED <<CACHEDIR, fs, entries>>
  ELSE LET new == join(Head(args), Tail(args))
           m == IF mk THEN makedirs(fs, new) ELSE [err |-> "none", fs |-> fs]
       IN /\ CACHEDIR' = new
          /\ fs' = m.fs
          /\ last' = call("cachedir", NoEntry, [args |-> args, makedirs |-> mk], m.err,
                          IF m.err = "none" THEN CACHEDIR ELSE <<>>)
          /\ UNCHANGED entries

\* cache.open(mode), the use of the handle and its release
Open(self, mode, d) ==
  LET r == open(fs, self, mode, d)
  IN /\ fs' = r.fs
     /\ last' = call("open", self, [mode |-> mode, d |-> d], r.err, r.ret)
     /\ UNCHANGED <<CACHEDIR, entries>>

\* cache.delete(ignore_errors)
Delete(self, ignore_errors) ==
  LET r == delete(fs, self, ignore_errors)
  IN /\ fs' = r.fs
     /\ last' = call("delete", self, [ignore_errors |-> ignore_errors], r.err, <<>>)
     /\ UNCHANGED <<CACHEDIR, entries>>

\* Cache.clear(path, clear_ro = clear_ro)
Clear(path, clear_ro) ==
  /\ fs' = clear(CACHEDIR, fs, path, clear_ro)
  /\ last' = call("clear", NoEntry, [cpath |-> path, clear_ro |-> clear_ro], "none", <<>>)
  /\ UNCHANGED <<CACHEDIR, entries>>

\* The environment sets the read-only attribute of a cache file.
SetReadOnly(self) ==
  LET r == lookup(fs, self.pathname)
  IN /\ r.st = "ok" /\ r.p \in DOMAIN fs /\ fs[r.p].kind = "file" /\ ~fs[r.p].ro
     /\ fs' = put(fs, r.p, [fs[r.p] EXCEPT !.ro = TRUE])
     /\ last' = call("chmod", self, [none |-> 0], "none", <<>>)
     /\ UNCHANGED <<CACHEDIR, entries>>

\* main(*args), the arguments given as the parsed options
Main(a) ==
  \E exit \in {main(CACHEDIR, fs, a)} :
     /\ CACHEDIR' = exit.cdir
     /\ fs' = exit.fs
     /\ last' = call("main", NoEntry, a, exit.err, [code |-> exit.code, out |-> exit.out])
     /\ UNCHANGED entries

\* One call of the program, its arguments drawn from the given sets.
Step(keys, sets, modes, data, clears) ==
  \/ \E k \in keys : Construct(k[1], k[2], k[3])
  \/ \E a \in sets : Cachedir(a[1], a[2])
  \/ \E self \in entries, mode \in modes, d \in data : Open(self, mode, d)
  \/ \E self \in entries, ignore_errors \in BOOLEAN : Delete(self, ignore_errors)
  \/ \E c \in clears : Clear(c[1], c[2])
  \/ \E self \in entries : SetReadOnly(self)

(***************************************************************************)
(* Inputs                                                                  *)
(***************************************************************************)
OTHERDIR == <<"/", "d">>
pkgP == PyStr(<<"p">>)
strF == PyStr(<<"f">>)
strA == PyStr(<<"a">>)

\* Two roots, files directly under the root and under a package.
Keys ==
  {<<strF, PyNone, VERSION>>, <<strF, pkgP, VERSION>>, <<PyList(<<>>), PyNone, VERSION>>}
Sets == {<<<<>>, TRUE>>, <<<<DEFAULTDIR>>, TRUE>>, <<<<OTHERDIR>>, TRUE>>, <<<<OTHERDIR>>, FALSE>>}
Modes == {"r", "w"}
Clears == {<<PyNone, TRUE>>, <<PyList(<<<<"f">>>>), TRUE>>, <<PyList(<<>>), FALSE>>}

Data == {1}

Next == Step(Keys, Sets, Modes, Data, Clears)

Spec == Init /\ [][Next]_vars

\* One root, a file and a directory of the same name, files at every level.
TreeKeys ==
  {<<PyList(<<strA>>), PyNone, VERSION>>, <<PyList(<<strA, strF>>), PyNone, VERSION>>,
   <<strF, pkgP, VERSION>>, <<PyList(<<strA, strF>>), pkgP, VERSION>>,
   <<PyList(<<>>), PyNone, VERSION>>, <<strF, PyInt(1), VERSION>>}
TreeSets == {<<<<>>, TRUE>>, <<<<DEFAULTDIR>>, TRUE>>}
TreeClears ==
  {<<PyNone, TRUE>>, <<PyList(<<<<"a">>>>), TRUE>>, <<PyList(<<<<"p">>, <<"0">>>>), TRUE>>,
   <<PyList(<<>>), FALSE>>}

TreeModes == {"w", "x"}

TreeNext == Step(TreeKeys, TreeSets, TreeModes, Data, TreeClears)

TreeSpec == Init /\ [][TreeNext]_vars

\* Path resolution alone: one construction from any of the roots, with
\* arguments of every accepted type and some that are rejected.
ResolveRoots == {DEFAULTDIR, OTHERDIR, <<"/", "c", "/", "r">>}
ResolvePaths ==
  {strF, PyStr(<<"a", " ", "b">>), PyList(<<strF>>),
   PyList(<<PyStr(<<"a", " ", "b">>), strF>>),
   PyList(<<PyStr(<<"a", " ", " ", "b">>), PyStr(<<" ">>), PyStr(<<"f", " ", "g">>)>>),
   PyList(<<PyStr(<<"a", "_", "b">>), strF>>),
   PyList(<<strA, PyInt(7)>>), PyList(<<strA, PyObject>>), PyList(<<>>)}
ResolvePackages == {PyNone, pkgP, PyStr(<<"m", "y", " ", "p">>), PyInt(1)}
ResolveVersions ==
  {VERSION, PyInt(2), PyInt(12), PyStr(<<"1", ".", "0">>), PyFloat(2), PyNone, PyList(<<>>)}
ResolveKeys == ResolvePaths \X ResolvePackages \X ResolveVersions

ResolveInit ==
  /\ CACHEDIR \in ResolveRoots
  /\ fs = (<<>> :> DirNode)
  /\ entries = {}
  /\ last = call("init", NoEntry, [none |-> 0], "none", <<>>)

ResolveNext == last.op = "init" /\ \E k \in ResolveKeys : Construct(k[1], k[2], k[3])

ResolveSpec == ResolveInit /\ [][ResolveNext]_vars

\* The namespace of parsed arguments: --cachedir (None when not given),
\* --debug, --filename, --package, --path and --version.
options(command, debug, package, path, filename, cdir) ==
  [command |-> command, cachedir |-> cdir, debug |-> debug, filename |-> filename,
   package |-> package, path |-> path, version |-> <<"0">>]

XTAR == <<"x", ".", "t", "a", "r">>
XTARGZ == XTAR \o <<".", "g", "z">>

\* The commands clear and size, commands that do not exist, and a cache
\* directory that cannot be made, on a cache with a file in a directory and
\* a file under a package.
CliArgs ==
  {options("clear", d, pk, <<>>, XTAR, PyNone) : d \in BOOLEAN, pk \in {PyNone, pkgP}}
  \cup {options("clear", FALSE, PyNone, <<"a">>, XTAR, PyNone)}
  \cup {options("size", d, PyNone, <<"a", "/", "f">>, XTAR, PyNone) : d \in BOOLEAN}
  \cup {options("size", FALSE, PyNone, <<"a">>, XTAR, PyStr(<<"/", "c", "/", "a", "/", "f">>))}
  \cup {options(c, d, PyNone, <<>>, XTAR, PyNone) : c \in {"list", "_"}, d \in BOOLEAN}

CliKeys ==
  {<<PyList(<<strA, strF>>), PyNone, VERSION>>, <<strF, pkgP, PyStr(<<"0">>)>>,
   <<PyList(<<>>), PyNone, VERSION>>}
CliData == {1, 1500}

CliNext ==
  \/ \E k \in CliKeys : Construct(k[1], k[2], k[3])
  \/ \E self \in entries, d \in CliData : Open(self, "w", d)
  \/ \E a \in CliArgs : Main(a)

CliSpec == Init /\ [][CliNext]_vars

\* Backup, clear and restore on a cache with a file in a directory, the
\* cache directory being the default or one whose name holds a space.
SPACEDIR == <<"/", "c", " ", "d">>

ArchiveArgs ==
  {options(c, FALSE, PyNone, <<>>, x, PyNone) : c \in {"backup", "restore"}, x \in {XTAR, XTARGZ}}
  \cup {options("clear", FALSE, PyNone, <<>>, XTAR, PyNone)}

ArchiveKeys == {<<PyList(<<strA, strF>>), PyNone, VERSION>>, <<PyList(<<>>), PyNone, VERSION>>}
ArchiveData == {1, 2}

ArchiveInit ==
  /\ CACHEDIR \in {DEFAULTDIR, SPACEDIR}
  /\ fs = (<<>> :> DirNode)
  /\ entries = {}
  /\ last = call("init", NoEntry, [none |-> 0], "none", <<>>)

ArchiveNext ==
  \/ \E k \in ArchiveKeys : Construct(k[1], k[2], k[3])
  \/ \E self \in entries, d \in ArchiveData : Open(self, "w", d)
  \/ \E self \in entries : SetReadOnly(self)
  \/ \E a \in ArchiveArgs : Main(a)

ArchiveSpec == ArchiveInit /\ [][ArchiveNext]_vars

\* Keys that leave the cache directory or meet another key: a segment
\* "..", an absolute segment, a space and an underscore, a version as a
\* number and as a string; and a cache directory that is a cache file.
DOTDOT == <<".", ".">>
strAB == PyStr(<<"a", " ", "b">>)
strA_B == PyStr(<<"a", "_", "b">>)

EdgeKeys ==
  {<<PyList(<<PyStr(DOTDOT), strF>>), PyNone, VERSION>>, <<PyStr(<<"/", "e">>), PyNone, VERSION>>,
   <<strAB, PyNone, VERSION>>}
EdgeSets == {<<<<DEFAULTDIR>>, TRUE>>, <<<<<<"/", "c", "/", "a", "_", "b">>>>, TRUE>>}
EdgeClears == {<<PyNone, TRUE>>, <<PyList(<<DOTDOT>>), TRUE>>}
EdgeModes == {"w"}

EdgeNext == Step(EdgeKeys, EdgeSets, EdgeModes, Data, EdgeClears)

EdgeSpec == Init /\ [][EdgeNext]_vars

AliasKeys ==
  {<<strAB, PyNone, VERSION>>, <<strA_B, PyNone, VERSION>>,
   <<strF, pkgP, VERSION>>, <<strF, pkgP, PyStr(<<"0">>)>>}
AliasSets == {<<<<DEFAULTDIR>>, TRUE>>}
AliasClears == {<<PyNone, TRUE>>}

AliasNext == Step(AliasKeys, AliasSets, EdgeModes, Data, AliasClears)

AliasSpec == Init /\ [][AliasNext]_vars

(***************************************************************************)
(* Properties                                                              *)
(***************************************************************************)
WriteModes == {"w", "x"}

\* The last call was a successful write through cache.open().
wrote(l) == l.op = "open" /\ l.arg.mode \in WriteModes /\ l.err = "none"

\* Every prefix of the canonical path p is an existing directory.
ancestorsExist(f, p) ==
  \A n \in 0..Len(p) : SubSeq(p, 1, n) \in DOMAIN f /\ f[SubSeq(p, 1, n)].kind = "dir"

\* C1: right after a write through open() in a write mode, exists() is
\* true; a delete() that follows the write succeeds and leaves exists()
\* false.
C1_WriteExistsDeleteGone ==
  /\ [](wrote(last) => exists(fs, last.obj))
  /\ [][(wrote(last) /\ last'.op = "delete" /\ last'.obj = last.obj)
          => (last'.err = "none" /\ ~exists(fs', last.obj))]_vars

C1_Witness ==
  /\ wrote(last) /\ last.obj.package = pkgP /\ Len(last.obj.path) = 2
  /\ exists(fs, last.obj)

\* C2: right after a successful construction the entry's directory exists
\* with all its ancestors, and constructing the same entry again succeeds
\* and leaves the filesystem as it is.
C2_DirectoryCreated ==
  (last.op = "Cache" /\ last.err = "none") =>
    LET r == lookup(fs, last.obj.dirname)
        again == CacheInit(CACHEDIR, fs, last.arg.path, last.arg.package, last.arg.version)
    IN /\ last.obj.dirname = dirname(last.obj.pathname)
       /\ r.st = "ok" /\ ancestorsExist(fs, r.p)
       /\ again.err = "none" /\ again.fs = fs /\ again.obj = last.obj

C2_Witness ==
  /\ last.op = "Cache" /\ last.err = "none" /\ last.obj.package = pkgP
  /\ Len(last.obj.path) = 2 /\ isdir(fs, last.obj.dirname)
  /\ Cardinality(entries) = 2

\* The target of Cache.clear(path): the resolution of join(CACHEDIR, *path)
\* in the filesystem f.
clearTarget(cdir, f, path) == lookup(f, join(cdir, IF path.t = "None" THEN <<>> ELSE path.items))

\* g is f outside the set P of paths.
sameOutside(f, g, P) ==
  \A q \in (DOMAIN f \cup DOMAIN g) \ P : q \in DOMAIN f /\ q \in DOMAIN g /\ g[q] = f[q]

\* C4: clear(path) removes everything at or beneath its target and leaves
\* the rest of the filesystem as it was; a missing target is not an error
\* and nothing changes.
C4_ClearRemovesSubtree ==
  [][last'.op = "clear" =>
       LET t == clearTarget(CACHEDIR, fs, last'.arg.cpath)
       IN /\ last'.err = "none"
          /\ IF t.st = "ok" /\ t.p \in DOMAIN fs
             THEN /\ \A q \in beneath(fs, t.p) : q \notin DOMAIN fs'
                  /\ sameOutside(fs, fs', beneath(fs, t.p))
             ELSE fs' = fs]_vars

\* C5: after clear() of the whole root no entry constructed before it
\* exists, and the root directory is there or is made again by the next
\* construction.
C5_ClearAllThenNoneExists ==
  (last.op = "clear" /\ last.arg.cpath \in {PyNone, PyList(<<>>)}) =>
    /\ \A e \in entries : ~exists(fs, e)
    /\ \/ isdir(fs, CACHEDIR)
       \/ \A k \in TreeKeys :
            LET r == CacheInit(CACHEDIR, fs, k[1], k[2], k[3])
            IN r.err = "none" => isdir(r.fs, CACHEDIR)

\* C6: cachedir(newRoot) returns the root that was active and makes
\* newRoot the active root, creating it when asked to; cachedir() returns
\* the active root; an entry constructed afterwards lies under the active
\* root and under no other.
C6_SetRoot ==
  /\ [][last'.op = "cachedir" =>
          IF last'.arg.args = <<>>
          THEN last'.ret = CACHEDIR /\ CACHEDIR' = CACHEDIR /\ fs' = fs
          ELSE /\ last'.err = "none"
               /\ last'.ret = CACHEDIR
               /\ CACHEDIR' = last'.arg.args[1]
               /\ last'.arg.makedirs => isdir(fs', last'.arg.args[1])
               /\ sameOutside(fs, fs', DOMAIN fs' \ DOMAIN fs)]_vars
  /\ []((last.op = "cachedir" /\ last.arg.args = <<>>) => last.ret = CACHEDIR)
  /\ []((last.op = "Cache" /\ last.err = "none") =>
          /\ last.obj.root = IF last.arg.package = PyNone THEN CACHEDIR
                             ELSE CACHEDIR \o <<"/">> \o last.arg.package.s \o <<"/", "0">>
          /\ isPrefix(CACHEDIR \o <<"/">>, last.obj.pathname)
          /\ \A r \in {DEFAULTDIR, OTHERDIR} \ {CACHEDIR} :
               ~isPrefix(r \o <<"/">>, last.obj.pathname))

C6_Witness ==
  /\ last.op = "Cache" /\ last.err = "none" /\ last.obj.package = pkgP
  /\ CACHEDIR = OTHERDIR /\ last.obj.root = <<"/", "d", "/", "p", "/", "0">>
  /\ \E e \in entries : e.root = DEFAULTDIR

\* C7: one root is active at a time; a constructed entry keeps its root,
\* full path and directory whatever cachedir() does later, and open() and
\* delete() act on that full path and on nothing else.
C7_EntryKeepsRoot ==
  /\ [](CACHEDIR \in {DEFAULTDIR, OTHERDIR})
  /\ [](\A e \in entries :
          /\ e.root \in {resolveRoot(r, e.package, e.version) : r \in {DEFAULTDIR, OTHERDIR}}
          /\ e.pathname = join(e.root, e.path) /\ e.dirname = dirname(e.pathname))
  /\ [][entries \subseteq entries' /\ (last'.op = "cachedir" => entries' = entries)]_vars
  /\ [][last'.op \in {"open", "delete"} =>
          /\ last'.obj \in entries
          /\ sameOutside(fs, fs', {lookup(fs, last'.obj.pathname).p})]_vars
  /\ [](wrote(last) => isfile(fs, last.obj.pathname))
  /\ []((last.op = "delete" /\ last.err = "none") => ~pathExists(fs, last.obj.pathname))

C7_Witness ==
  /\ wrote(last) /\ CACHEDIR = OTHERDIR /\ last.obj.root = DEFAULTDIR
  /\ isfile(fs, last.obj.pathname) /\ isdir(fs, OTHERDIR)

\* delete(ignore_errors = True) called again in the state the last call left.
deleteAgain == delete(fs, last.obj, TRUE)

\* C8 as stated: after delete(ignore_errors = True), a second such call
\* never fails and leaves the filesystem as it is.
C8_SecondDeleteNeverFails ==
  (last.op = "delete" /\ last.arg.ignore_errors) =>
    (deleteAgain.err = "none" /\ deleteAgain.fs = fs)

\* C8, amended: after a delete(ignore_errors = True) that returned, a
\* second such call returns too and leaves the filesystem as it is.
C8_SecondDeleteAfterSuccess ==
  (last.op = "delete" /\ last.arg.ignore_errors /\ last.err = "none") =>
    (deleteAgain.err = "none" /\ deleteAgain.fs = fs)

C8_Witness ==
  /\ last.op = "delete" /\ last.arg.ignore_errors /\ last.err = "none"
  /\ isdir(fs, last.obj.dirname) /\ ~exists(fs, last.obj)
  /\ deleteAgain.err = "none"

\* C9 as stated: delete() on an entry whose file does not exist returns
\* without effect when ignore_errors is set, raises FileNotFoundError when
\* it is not, and changes nothing.
C9_DeleteMissing ==
  [][(last'.op = "delete" /\ ~exists(fs, last'.obj)) =>
       /\ fs' = fs
       /\ last'.err = IF last'.arg.ignore_errors THEN "none" ELSE "FileNotFoundError"]_vars

\* C9, amended: the same, for an entry whose file does not exist and none
\* of whose ancestors is a regular file.
C9_DeleteMissingNoFileAbove ==
  [][(/\ last'.op = "delete" /\ ~exists(fs, last'.obj)
      /\ lookup(fs, last'.obj.pathname).st # "ENOTDIR") =>
       /\ fs' = fs
       /\ last'.err = IF last'.arg.ignore_errors THEN "none" ELSE "FileNotFoundError"]_vars

C9_Witness ==
  /\ last.op = "delete" /\ ~last.arg.ignore_errors /\ last.err = "FileNotFoundError"
  /\ ~exists(fs, last.obj) /\ ~isdir(fs, last.obj.dirname)

\* C10: clear(clear_ro = True) removes the read-only files beneath its
\* target (the attribute is cleared and the removal tried again), and does
\* not fail.
C10_ClearRemovesReadOnly ==
  [][(last'.op = "clear" /\ last'.arg.clear_ro) =>
       LET t == clearTarget(CACHEDIR, fs, last'.arg.cpath)
       IN /\ last'.err = "none"
          /\ (t.st = "ok" /\ t.p \in DOMAIN fs /\ fs[t.p].kind = "dir") =>
               \A q \in beneath(fs, t.p) :
                 (fs[q].kind = "file" /\ fs[q].ro) => q \notin DOMAIN fs']_vars

(***************************************************************************)
(* The reference path resolution, written out independently of the model  *)
(* of Cache.__init__: the text of each version and list item is tabulated,*)
(* spaces are replaced character by character, and a join puts one         *)
(* separator between its parts.                                            *)
(***************************************************************************)
RefText(x) ==
  CASE x = PyInt(0) -> <<"0">>
    [] x = PyInt(2) -> <<"2">>
    [] x = PyInt(7) -> <<"7">>
    [] x = PyInt(12) -> <<"1", "2">>
    [] x = PyFloat(2) -> <<"2", ".", "0">>
    [] x = PyNone -> <<"N", "o", "n", "e">>
    [] x.t = "str" -> x.s

RECURSIVE RefUnderscore(_)
RefUnderscore(s) ==
  IF s = <<>> THEN <<>>
  ELSE <<IF Head(s) = " " THEN "_" ELSE Head(s)>> \o RefUnderscore(Tail(s))

RECURSIVE RefSegmentsOf(_)
RefSegmentsOf(items) ==
  IF items = <<>> THEN <<>>
  ELSE <<RefUnderscore(RefText(Head(items)))>> \o RefSegmentsOf(Tail(items))

RefSegments(path) == IF path.t = "str" THEN <<RefUnderscore(path.s)>> ELSE RefSegmentsOf(path.items)

RECURSIVE RefJoin(_, _)
RefJoin(a, parts) ==
  IF parts = <<>> THEN a ELSE RefJoin(a \o <<"/">> \o Head(parts), Tail(parts))

RefRoot(currentRoot, package, version) ==
  IF package = PyNone THEN currentRoot
  ELSE RefJoin(currentRoot, <<package.s, RefText(version)>>)

\* C3: the root, full path and directory of a constructed entry are those
\* of the reference resolution; a single string is a one-element sequence.
C3_PathResolution ==
  (last.op = "Cache" /\ last.err = "none") =>
    LET segs == RefSegments(last.arg.path)
        root == RefRoot(CACHEDIR, last.arg.package, last.arg.version)
        full == RefJoin(root, segs)
    IN /\ last.obj.root = root
       /\ last.obj.path = segs
       /\ last.obj.pathname = full
       /\ last.obj.dirname = SubSeq(full, 1, Len(full) - Len(segs[Len(segs)]) - 1)
       /\ (CACHEDIR = DEFAULTDIR /\ last.arg.path \in {strF, PyList(<<strF>>)}) =>
            /\ last.arg.package = PyNone => last.obj.pathname = <<"/", "c", "/", "f">>
            /\ (last.arg.package = pkgP /\ last.arg.version = PyInt(2)) =>
                 last.obj.pathname = <<"/", "c", "/", "p", "/", "2", "/", "f">>

C3_Witness ==
  /\ last.op = "Cache" /\ last.err = "none"
  /\ last.arg.package = pkgP /\ last.arg.version = PyFloat(2)
  /\ last.obj.pathname =
       <<"/", "d", "/", "p", "/", "2", ".", "0", "/", "a", "_", "_", "b", "/", "_", "/", "f", "_", "g">>
  /\ last.obj.dirname = <<"/", "d", "/", "p", "/", "2", ".", "0", "/", "a", "_", "_", "b", "/", "_">>

(***************************************************************************)
(* Properties of the command line                                          *)
(***************************************************************************)
\* The last call was main with the given command.
ran(l, command) == l.op = "main" /\ l.arg.command = command

\* The full path an entry of the package, version and path of the
\* arguments a resolves to under the cache directory cdir.
cliTarget(cdir, a) ==
  join(resolveRoot(cdir, a.package, PyStr(a.version)), normalize(components(a.path)))

\* C11: the clear command returns 0, removes everything at or beneath the
\* location an entry with the given --package, --version and --path
\* resolves to, and leaves the rest of the cache as the setting of the
\* cache directory left it.
C11_CliClearsAddressedSubtree ==
  [][ran(last', "clear") =>
       \E pre \in {cachedir(CACHEDIR, fs, <<CACHEDIR'>>, TRUE).fs} :
         \E t \in {lookup(pre, cliTarget(CACHEDIR', last'.arg))} :
           /\ last'.err = "none" /\ last'.ret.code = <<E_OK>>
           /\ \A q \in beneath(pre, t.p) : q \notin DOMAIN fs'
           /\ sameOutside(pre, fs', beneath(pre, t.p))]_vars

\* The entries that exist in f exist in g with the same content.
restored(f, g) ==
  \A e \in entries :
    exists(f, e) =>
      /\ exists(g, e)
      /\ g[lookup(g, e.pathname).p].kind = f[lookup(f, e.pathname).p].kind
      /\ g[lookup(g, e.pathname).p].data = f[lookup(f, e.pathname).p].data

\* main(backup, --filename x), main(clear), main(restore, --filename x) in
\* the state (cdir, f): the filesystem the three commands leave.
roundTrip(cdir, f, x) ==
  CHOOSE g \in
    {s3.fs : s3 \in
      UNION {{main(s2.cdir, s2.fs, options("restore", FALSE, PyNone, <<>>, x, PyNone)) : s2 \in
        UNION {{main(s1.cdir, s1.fs, options("clear", FALSE, PyNone, <<>>, x, PyNone))} : s1 \in
          {main(cdir, f, options("backup", FALSE, PyNone, <<>>, x, PyNone))}}}}} : TRUE

\* C12: in every reachable state, backup to a file, clear of the whole
\* cache root and restore from the file leave every entry that existed
\* existing, with the content it had; for a file name that ends in .gz and
\* for one that does not.
C12_BackupClearRestore ==
  \A x \in {XTAR, XTARGZ} : restored(fs, roundTrip(CACHEDIR, fs, x))

(***************************************************************************)
(* Properties of the construction                                          *)
(***************************************************************************)
ValidVersions == {"int", "str", "float", "None"}

\* C13 as stated: a construction fails and makes no directory when package
\* is neither None nor a string, when version is none of None, string,
\* integer and float whatever package is, or when a segment cannot be
\* converted to a string.
C13_InvalidArgumentsAnyPackage ==
  [][(/\ last'.op = "Cache"
      /\ \/ last'.arg.package.t \notin {"None", "str"}
         \/ last'.arg.version.t \notin ValidVersions
         \/ ~convertible(last'.arg.path)) =>
       (last'.err \in {"AssertionError", "TypeError"} /\ fs' = fs /\ entries' = entries)]_vars

\* C13, amended: the same, the version being checked when package is a
\* string only; with package None a version of any type is accepted.
C13_InvalidArguments ==
  /\ [][(/\ last'.op = "Cache"
         /\ \/ last'.arg.package.t \notin {"None", "str"}
            \/ last'.arg.package.t = "str" /\ last'.arg.version.t \notin ValidVersions
            \/ ~convertible(last'.arg.path)) =>
          (last'.err \in {"AssertionError", "TypeError"} /\ fs' = fs /\ entries' = entries)]_vars
  /\ []((/\ last.op = "Cache" /\ last.arg.package = PyNone
         /\ convertible(last.arg.path) /\ last.arg.path # PyList(<<>>)) =>
          last.err = "none")

C13_Witness ==
  /\ last.op = "Cache" /\ last.arg.package = pkgP /\ last.arg.version = PyList(<<>>)
  /\ last.arg.path = strF /\ last.err = "AssertionError"
  /\ DOMAIN fs = {<<>>} /\ entries = {}

\* main returned without having caught an exception and without a failure
\* of tar.
succeeded(l) ==
  /\ l.op = "main" /\ l.err = "none"
  /\ \A i \in 1..Len(l.ret.out) : ~isError(l.ret.out[i])
  /\ l.ret.code # <<TAR_FAILED>>

\* C14: a command that completes successfully returns 0, and 1 is returned
\* on failure only; size on an existing cache file prints the path and the
\* size and returns 0.
C14_SuccessReturnsZero ==
  /\ succeeded(last) => last.ret.code = <<E_OK>>
  /\ (ran(last, "size") /\ last.arg.cachedir = PyNone
      /\ isfile(fs, cliTarget(CACHEDIR, last.arg))) =>
       /\ last.err = "none" /\ last.ret.code = <<E_OK>>
       /\ Len(last.ret.out) = 1 /\ ~isError(last.ret.out[1])

\* C15 as stated: a command other than clear, size, backup and restore
\* fails with a runtime error; main returns 1 without --debug and raises
\* the error with --debug.
C15_UnknownCommandRuntimeError ==
  (last.op = "main" /\ last.arg.command \notin choices) =>
    IF last.arg.debug THEN last.err = "RuntimeError"
    ELSE last.err = "none" /\ last.ret.code = <<E_FAILED>>

\* C15, amended: a command other than clear, size, backup and restore is a
\* usage error of the argument parser: SystemExit with status 2 leaves
\* main, with --debug and without it, nothing is printed through the
\* ERROR line, and neither the cache directory nor the filesystem changes.
\* No call of main ends with the runtime error.
C15_UnknownCommandUsageError ==
  /\ []((last.op = "main" /\ last.arg.command \notin choices) =>
          /\ last.err = "SystemExit" /\ last.ret.code = <<E_SYNTAX>>
          /\ last.ret.out = <<>>)
  /\ [][(last'.op = "main" /\ last'.arg.command \notin choices) =>
          (fs' = fs /\ CACHEDIR' = CACHEDIR)]_vars
  /\ [](last.op = "main" => last.err # "RuntimeError")

C15_Witness ==
  /\ last.op = "main" /\ last.arg.command = "_" /\ last.arg.debug
  /\ last.err = "SystemExit" /\ last.ret.code = <<E_SYNTAX>>
  /\ entries # {}

\* The arguments a with --debug given or not.
withDebug(a, d) == [a EXCEPT !.debug = d]

\* C16: an exception raised while main processes one of its commands is
\* caught when --debug is not given: main prints one ERROR line that names
\* it and returns 1.  With --debug the same exception leaves main, no
\* ERROR line is printed and no exit code is returned.  The two runs leave
\* the same filesystem and cache directory, and a run that raises nothing
\* does not depend on --debug.  size on a file that does not exist and
\* clear with a package, in a cache directory that exists, are such errors.
C16_ErrorsCaughtUnlessDebug ==
  /\ \A a \in {b \in CliArgs : b.command \in choices} :
       \E quiet \in {main(CACHEDIR, fs, withDebug(a, FALSE))} :
         \E debug \in {main(CACHEDIR, fs, withDebug(a, TRUE))} :
           /\ quiet.err = "none"
           /\ quiet.fs = debug.fs /\ quiet.cdir = debug.cdir
           /\ IF debug.err = "none" THEN quiet = debug
              ELSE /\ debug.code = <<>> /\ debug.out = <<>>
                   /\ quiet.code = <<E_FAILED>> /\ quiet.out = <<errorLine(debug.err)>>
  /\ (last.op = "main" /\ last.arg.command \in choices) =>
       /\ last.arg.debug => (last.ret.out = <<>> \/ last.err = "none")
       /\ ~last.arg.debug => last.err = "none"
       /\ (\E i \in 1..Len(last.ret.out) : isError(last.ret.out[i])) =>
            (last.ret.code = <<E_FAILED>> /\ Len(last.ret.out) = 1)
  /\ (/\ ran(last, "size") /\ last.arg.cachedir = PyNone
      /\ isdir(fs, dirname(cliTarget(CACHEDIR, last.arg)))
      /\ ~pathExists(fs, cliTarget(CACHEDIR, last.arg))) =>
       IF last.arg.debug THEN last.err = "FileNotFoundError" /\ last.ret.code = <<>>
       ELSE /\ last.ret.out = <<errorLine("FileNotFoundError")>>
            /\ last.ret.code = <<E_FAILED>>
  /\ (ran(last, "clear") /\ last.arg.package # PyNone /\ isdir(fs, CACHEDIR)) =>
       IF last.arg.debug THEN last.err = "AssertionError" /\ last.ret.code = <<>>
       ELSE /\ last.ret.out = <<errorLine("AssertionError")>>
            /\ last.ret.code = <<E_FAILED>>

C16_Witness ==
  /\ ran(last, "size") /\ ~last.arg.debug /\ last.err = "none"
  /\ last.ret.out = <<errorLine("FileNotFoundError")>> /\ last.ret.code = <<E_FAILED>>
  /\ isdir(fs, <<"/", "c", "/", "a">>) /\ ~pathExists(fs, <<"/", "c", "/", "a", "/", "f">>)

(***************************************************************************)
(* Properties of the layout                                                *)
(***************************************************************************)
\* The canonical path of the cache directory cdir.
rootPath(cdir) == memberPath(cdir)

\* The canonical paths at which f and g differ.
changed(f, g) ==
  {q \in DOMAIN f \cup DOMAIN g : q \notin DOMAIN f \/ q \notin DOMAIN g \/ f[q] # g[q]}

\* C17: whatever the segments are, a construction creates directories at
\* or beneath the active cache directory only and the full path of the
\* entry lies beneath it; open and delete change nothing outside the root
\* of their entry; clear removes nothing outside the active cache
\* directory.
C17_Containment ==
  [][/\ last'.op = "Cache" =>
          \A q \in changed(fs, fs') : isPrefix(rootPath(CACHEDIR), q)
     /\ (last'.op = "Cache" /\ last'.err = "none") =>
          /\ lookup(fs', last'.obj.pathname).st = "ok"
          /\ isPrefix(rootPath(CACHEDIR), lookup(fs', last'.obj.pathname).p)
     /\ last'.op \in {"open", "delete"} =>
          \A q \in changed(fs, fs') : isPrefix(rootPath(last'.obj.root), q)
     /\ last'.op = "clear" =>
          \A q \in changed(fs, fs') : isPrefix(rootPath(CACHEDIR), q)]_vars

\* C18: two keys that differ in package, version or segments resolve to
\* different full paths under the active cache directory, and a write or
\* a delete through one entry changes neither exists() nor the content of
\* another entry.
C18_KeyIsolation ==
  /\ [](\A k1 \in AliasKeys, k2 \in AliasKeys :
          \E r1 \in {CacheInit(CACHEDIR, fs, k1[1], k1[2], k1[3])} :
            \E r2 \in {CacheInit(CACHEDIR, fs, k2[1], k2[2], k2[3])} :
              (k1 # k2 /\ r1.err = "none" /\ r2.err = "none") =>
                r1.obj.pathname # r2.obj.pathname)
  /\ [][last'.op \in {"open", "delete"} =>
          \A e \in entries \ {last'.obj} :
            /\ exists(fs', e) = exists(fs, e)
            /\ exists(fs, e) => fs'[lookup(fs', e.pathname).p] = fs[lookup(fs, e.pathname).p]]_vars

\* C19: a cachedir(newRoot) that fails because newRoot cannot be created
\* leaves the active cache directory as it was.
C19_SetRootAllOrNothing ==
  [][(last'.op = "cachedir" /\ last'.arg.args # <<>> /\ last'.err # "none") =>
       CACHEDIR' = CACHEDIR]_vars

\* C20: exists() is true exactly when the cache file of the entry is
\* there, whatever other entries have been constructed.
C20_ExistsIffFile ==
  \A e \in entries : exists(fs, e) <=> isfile(fs, e.pathname)

====
